---- MODULE Spec2Model ----
(***************************************************************************)
(* AssemblyKitEnv (assembly_kit_env.py): the episode sampler               *)
(* (sample_models_for_envs, reached through _reset_idx), the tolerance     *)
(* evaluator (is_success, compute_rewards, _get_dones) and the per-env      *)
(* buffers they share.                                                     *)
(*                                                                         *)
(* Units: positions are integer millimetres <<x, y, z>>, angles are        *)
(* integer degrees (2*pi = 360).  A batch tensor of shape (n, ...) is a     *)
(* sequence of length n; row r of the tensor (0-based) is element r + 1.   *)
(* Per-environment buffers that always have num_envs rows are functions    *)
(* over Envs.                                                              *)
(***************************************************************************)
EXTENDS Integers, Sequences, FiniteSets, TLC

\* ------------------------------------------------------------------ bounds
NumEnvs == 2
MaxModels == 3
MaxCalls == 2
MaxSteps == 2

\* ------------------------------------------------------------ configuration
\* len(kit_usd_paths): the number of kit variants in the catalog below.
NumKits == 2

\* self.kit_target_starting_pos.shape[1]: start proposals per kit.
NumStartPos == 1

\* self.max_episode_length
max_episode_length == 3

Envs == 0 .. NumEnvs - 1

\* ------------------------------------------------------------ tensor helpers
VecAdd(a, b) == <<a[1] + b[1], a[2] + b[2], a[3] + b[3]>>

VecSub(a, b) == <<a[1] - b[1], a[2] - b[2], a[3] - b[3]>>

\* torch advanced indexing into a dimension of the given size: an index in
\* [0, size) is itself, an index in [-size, 0) counts from the end, and any
\* other index raises IndexError (-1 stands for the raise).
NormIndex(i, size) ==
  IF 0 <= i /\ i < size THEN i
  ELSE IF -size <= i /\ i < 0 THEN i + size
  ELSE -1

\* The position (1-based) of the row of a batch that belongs to value v, 0 if none.
PosOf(seq, v) ==
  IF \E p \in 1 .. Len(seq) : seq[p] = v
  THEN CHOOSE p \in 1 .. Len(seq) : seq[p] = v
  ELSE 0

\* ------------------------------------------------------- scene and kit catalog
\* self.scene.env_origins: one fixed world origin per environment.
env_origins(e) == <<2000 * e, 0, 0>>

\* self.kit_ids_per_env = arange(num_envs) % len(kit_usd_paths)
kit_ids_per_env(e) == e % NumKits

\* The kit's default root position (init_state of the kit cfg).
kit_default_pos == <<550, 0, 7>>

\* The models' default root pose (init_state of the model cfg).
model_default_pose == [pos |-> <<550, 0, 100>>, quat |-> 0]

\* kit_json["objects"][s]["object_id"]: the shape type in slot s of kit k.
kit_model_ids(k, s) == (k + s) % 4

\* self.model_target_pos[k][s]: goal position of slot s, kit-local.
model_target_pos(k, s) == <<60 * s - 60, 40 * k + 10, 0>>

\* self.model_target_rot[k][s]: goal Z rotation of slot s as stored in the JSON.
model_target_rot(k, s) == 90 * s - 90 + 30 * k

\* self.kit_target_starting_pos[k][i]: candidate start offsets of the target.
kit_target_starting_pos(k, i) == <<-200 + 15 * k, 150 + 25 * i, 20>>

\* self.symmetry[id]: the rotational symmetry period of a shape type.
symmetry(id) ==
  CASE id = 0 -> 360
    [] id = 1 -> 180
    [] id = 2 -> 90
    [] OTHER -> 45

\* self.cfg.table_offset
table_offset == 300

\* torch.tensor([[-self.cfg.table_offset, 0.2, 0.1]])
side_pos == <<-table_offset, 200, 100>>

\* quat_from_euler_xyz(0, 0, yaw): a pure-yaw unit quaternion, represented by
\* the rotation it denotes (q and -q, and yaw and yaw + 2*pi, are one rotation).
quat_from_euler_xyz(yaw) == yaw % 360

\* euler_xyz_from_quat(q)[2]: the yaw of a pure-yaw quaternion, in [0, 2*pi).
euler_xyz_from_quat(q) == q % 360

\* The rotations torch.rand(n) * 2 * pi is drawn from.
RotDraws == {135}

\* ----------------------------------------------------------------- frame math
\* Rotation of a vector about the vertical axis by a yaw that is a multiple of
\* a quarter turn (the wrist yaws the model uses).
quat_rotate(q, v) ==
  CASE q % 360 = 0 -> v
    [] q % 360 = 90 -> <<-v[2], v[1], v[3]>>
    [] q % 360 = 180 -> <<-v[1], -v[2], v[3]>>
    [] OTHER -> <<v[2], -v[1], v[3]>>

\* tf_inverse(q, t): the inverse rigid transform.
tf_inverse(q, t) ==
  [rot |-> (360 - (q % 360)) % 360,
   pos |-> quat_rotate((360 - (q % 360)) % 360, <<-t[1], -t[2], -t[3]>>)]

\* tf_combine(q1, t1, q2, t2): transform 2 expressed in the parent frame of 1.
tf_combine(q1, t1, q2, t2) ==
  [rot |-> (q1 + q2) % 360, pos |-> VecAdd(t1, quat_rotate(q1, t2))]

\* -------------------------------------------------------------- TCP resolver
\* World poses of the wrist and fingertip prims of environment e on the stage
\* at construction (every robot is the same model at the same place in its
\* environment).
wrist_prim_pose(e) == [pos |-> VecAdd(<<300, 0, 500>>, env_origins(e)), quat |-> 90]

lfinger_prim_pose(e) == [pos |-> VecAdd(<<360, 40, 400>>, env_origins(e)), quat |-> 90]

rfinger_prim_pose(e) == [pos |-> VecAdd(<<360, -40, 400>>, env_origins(e)), quat |-> 90]

\* get_env_local_pose: the prim's world pose with the origin subtracted.
get_env_local_pose(env_origin, prim_pose) ==
  [pos |-> VecSub(prim_pose.pos, env_origin), quat |-> prim_pose.quat]

\* compute_local_tcp default y_offset = 0.04.
y_offset == 40

\* compute_local_tcp: the fingertip midpoint, with the left finger's
\* orientation, expressed in the wrist frame, pushed y_offset along wrist Y.
compute_local_tcp(env_origin, wrist_prim, lfinger_prim, rfinger_prim) ==
  LET wrist_pose == get_env_local_pose(env_origin, wrist_prim)
      lfinger_pose == get_env_local_pose(env_origin, lfinger_prim)
      rfinger_pose == get_env_local_pose(env_origin, rfinger_prim)
      sum == VecAdd(lfinger_pose.pos, rfinger_pose.pos)
      finger_mid == [pos |-> <<sum[1] \div 2, sum[2] \div 2, sum[3] \div 2>>,
                     quat |-> lfinger_pose.quat]
      wrist_inv == tf_inverse(wrist_pose.quat, wrist_pose.pos)
      local == tf_combine(wrist_inv.rot, wrist_inv.pos, finger_mid.quat, finger_mid.pos)
  IN [pos |-> VecAdd(local.pos, <<0, y_offset, 0>>), rot |-> local.rot]

\* ------------------------------------------------------------------- state
VARIABLES
  num_models,              \* K = self.model_target_pos.shape[1]
  gen,                     \* torch's global generator: the draws it will give next
  current_target,          \* self._current_target[:, 0]
  current_target_model_id, \* self.current_target_model_id (<<>>: not yet set)
  target_goal_pos,         \* self.target_goal_pos (<<>>: not yet set)
  target_goal_rot,         \* self.target_goal_rot (<<>>: not yet set)
  root_pose,               \* models[m].data.root_state_w[e, :7]
  episode_length_buf,      \* self.episode_length_buf
  robot_local_grasp,       \* self.robot_local_grasp_pos / robot_local_grasp_rot, per environment
  hand_pose,               \* robot.data.body_pos_w / body_quat_w[:, hand_link_idx]
  layout,                  \* what the kit and episode JSON files hold
  startup,                 \* how construction ended: "pending", "ok" or the exception
  last_op,                 \* the operation that produced this state
  calls,                   \* how many sample_models_for_envs calls were made
  steps,                   \* how many steps were taken
  last_call,               \* the last sample_models_for_envs call: arguments, locals, outcome
  step_out                 \* what the last step returned: dones, rewards, is_success locals

vars == <<num_models, gen, current_target, current_target_model_id,
          target_goal_pos, target_goal_rot, root_pose, episode_length_buf,
          robot_local_grasp, hand_pose, layout, startup,
          last_op, calls, steps, last_call, step_out>>

Slots == 0 .. num_models - 1

NoCall ==
  [env_ids |-> <<>>, status |-> "none", gen_before |-> <<>>, choice |-> <<>>,
   mask_other_to_side |-> <<>>, kit_pos_w |-> <<>>, poses |-> <<>>]

NoStep == [status |-> "none", terminated |-> <<>>, time_out |-> <<>>,
           reward |-> <<>>, rot_raw |-> <<>>, rot_diff |-> <<>>, symmetry_val |-> <<>>,
           physics |-> <<>>, success_mask |-> <<>>, target_model_pose |-> <<>>,
           tcp |-> <<>>]

\* The layout files as far as construction looks at them: whether every
\* object of every kit has its "pos" and "rot", the symmetry period of a shape
\* type in episodes.json, and the length of a kit's start_pos_proposal list.
Layouts ==
  [goal_pose_present : BOOLEAN,
   symmetry_period : {-180, 0, 180},
   start_pos_proposal_len : 0 .. NumStartPos]

\* The layout the catalog above is read from.
ValidLayout ==
  [goal_pose_present |-> TRUE, symmetry_period |-> 180,
   start_pos_proposal_len |-> NumStartPos]

\* torch.empty: _current_target holds whatever the allocation held, a valid
\* slot or not (num_models stands for any value that is no slot).
InitAttributes ==
  /\ num_models \in 1 .. MaxModels
  /\ gen \in [1 .. NumEnvs -> 0 .. num_models - 1]
  /\ current_target \in [Envs -> 0 .. num_models]
  /\ current_target_model_id = <<>>
  /\ target_goal_pos = <<>>
  /\ target_goal_rot = <<>>
  /\ root_pose = [m \in Slots |-> [e \in Envs |->
                    [pos |-> VecAdd(model_default_pose.pos, env_origins(e)),
                     quat |-> model_default_pose.quat]]]
  /\ episode_length_buf = [e \in Envs |-> 0]
  /\ robot_local_grasp =
       [e \in Envs |-> compute_local_tcp(env_origins(e), wrist_prim_pose(e),
                                         lfinger_prim_pose(e), rfinger_prim_pose(e))]
  /\ hand_pose = [e \in Envs |-> wrist_prim_pose(e)]
  /\ last_op = "init"
  /\ calls = 0
  /\ steps = 0
  /\ last_call = NoCall
  /\ step_out = NoStep

\* The state after construction from a well-formed layout.
Init ==
  /\ layout = ValidLayout
  /\ startup = "ok"
  /\ InitAttributes

\* ---------------------------------------------------------- episode sampler
\* The index tensors a caller may pass: environments in any order, each named
\* once, by an index in [0, num_envs), by -1 (the last environment, counted
\* from the end) or by num_envs (one past the end).  Sequences that name one
\* row twice (by -1 and by its non-negative index) are left out.
EnvIdSeqs ==
  {s \in UNION {[1 .. n -> -1 .. NumEnvs] : n \in 1 .. NumEnvs} :
     /\ \A p, q \in 1 .. Len(s) : p # q => s[p] # s[q]
     /\ (\E p \in 1 .. Len(s) : s[p] = -1) =>
          /\ \A q \in 1 .. Len(s) : s[q] # NumEnvs - 1
          /\ \A q \in 1 .. Len(s) : s[q] # Len(s) - 1}

\* torch.randint(0, high, (n,)) on the global generator: the values the
\* generator gives next, in batch order; draws past the known ones are free.
RandInt(g, high, n) ==
  {c \in [1 .. n -> 0 .. high - 1] :
     \A p \in 1 .. n : p <= Len(g) => c[p] = g[p] % high}

\* others_idx: the slots other than the chosen one, in ascending order
\* (all_cols[others_mask].view(num_envs, num_models - 1)).
others_idx(c) == [i \in 1 .. num_models - 1 |-> IF i - 1 < c THEN i - 1 ELSE i]

\* kit_pos_w = kit_def[:, :3] + self.scene.env_origins[env_ids]
kit_pos_w(e) == VecAdd(kit_default_pos, env_origins(e))

\* target_pos = kit_pos_w + offsets, target_quat = quat_from_euler_xyz(0, 0, rot_t)
target_pose(e, start_idx, rot) ==
  [pos |-> VecAdd(kit_pos_w(e), kit_target_starting_pos(kit_ids_per_env(e), start_idx)),
   quat |-> quat_from_euler_xyz(rot)]

\* A sampler that writes the side position as a world coordinate, without the
\* kit's position.
others_pos_w_world_fixed(e, m, to_side) ==
  IF to_side THEN side_pos
  ELSE VecAdd(kit_pos_w(e), model_target_pos(kit_ids_per_env(e), m))

\* others_pos[mask_other_to_side] = side position; others_pos_w = kit_pos_w + others_pos
others_pos_w(e, m, to_side) ==
  VecAdd(kit_pos_w(e),
         IF to_side THEN side_pos ELSE model_target_pos(kit_ids_per_env(e), m))

\* The pose sample computes for slot m of environment e: the target's start
\* pose, or the distractor's pose with quat_from_euler_xyz(0, 0, rots_o).
computed_pose(e, m, c, start_idx, rot, pick, col) ==
  IF m = c THEN target_pose(e, start_idx, rot)
  ELSE [pos |-> others_pos_w(e, m, pick /\ others_idx(c)[col + 1] = m),
        quat |-> quat_from_euler_xyz(model_target_rot(kit_ids_per_env(e), m))]

\* default[envs_t, :3] = poses_t: the row of `default` (a tensor with one row
\* per entry of env_ids) that the pose of environment index e is stored in.
default_row(e, n) == NormIndex(e, n)

\* self.target_goal_pos = model_rel_pos[arange(n), choice]
stored_goal_pos(e, c) == model_target_pos(kit_ids_per_env(e), c)

\* self.target_goal_rot = model_rel_rot[arange(n), choice]
stored_goal_rot(e, c) == model_target_rot(kit_ids_per_env(e), c)

\* How far a call gets: "IndexError" at kit_ids_per_env[env_ids], "gather" at
\* .gather(1, self._current_target), "randint" at randint(0, num_models - 1),
\* "rows" at default[envs_t, :3] = poses_t, else "ok".
call_status(env_ids, target1) ==
  LET n == Len(env_ids)
  IN IF \E p \in 1 .. n : NormIndex(env_ids[p], NumEnvs) = -1 THEN "IndexError"
     ELSE IF \E e \in Envs : target1[e] \notin Slots THEN "gather"
     ELSE IF num_models - 1 <= 0 THEN "randint"
     ELSE IF \E p \in 1 .. n : default_row(env_ids[p], n) = -1 THEN "rows"
     ELSE "ok"

\* self._current_target[env_ids] = choice.unsqueeze(1)
assign_current_target(env_ids, choice) ==
  [e \in Envs |->
     LET p == PosOf([q \in 1 .. Len(env_ids) |-> NormIndex(env_ids[q], NumEnvs)], e)
     IN IF p = 0 THEN current_target[e] ELSE choice[p]]

\* models[m].write_root_pose_to_sim(default[:, :7], env_ids): row p of
\* `default` goes to environment env_ids[p]; row r of `default` holds the pose
\* stored by default[envs, ...] = poses for the entry whose index selects r.
write_root_pose(env_ids, poses) ==
  LET n == Len(env_ids)
      rows == [q \in 1 .. n |-> default_row(env_ids[q], n)]
      dest == [q \in 1 .. n |-> NormIndex(env_ids[q], NumEnvs)]
  IN [m \in Slots |-> [e \in Envs |->
        LET p == PosOf(dest, e)
        IN IF p = 0 THEN root_pose[m][e]
           ELSE LET src == PosOf(rows, p - 1)
                IN IF src = 0 THEN model_default_pose ELSE poses[src][m]]]

\* A lookup that takes the object id of the first slot of each kit.
gather_model_ids_first_slot(target1) ==
  [i \in 1 .. NumEnvs |-> kit_model_ids(kit_ids_per_env(i - 1), 0)]

\* torch.tensor([info["model_ids"] ...]).gather(1, self._current_target): for
\* every environment, the object id at its target slot in its kit's list.
gather_model_ids(target1) ==
  [i \in 1 .. NumEnvs |-> kit_model_ids(kit_ids_per_env(i - 1), target1[i - 1])]

sample_models_for_envs(env_ids, choice, sampled_idx, rot_t, do_pick, cols) ==
  LET n == Len(env_ids)
      env == [p \in 1 .. n |-> NormIndex(env_ids[p], NumEnvs)]
      target1 == assign_current_target(env_ids, choice)
      status == call_status(env_ids, target1)
      drawn == status # "IndexError"
      stored == status \notin {"IndexError", "gather"}
      placed == status \in {"rows", "ok"}
      poses == [p \in 1 .. n |-> [m \in Slots |->
                  computed_pose(env[p], m, choice[p], sampled_idx[p], rot_t[p],
                                do_pick[p], cols[p])]]
  IN /\ gen' = IF drawn THEN <<>> ELSE gen
     /\ current_target' = IF drawn THEN target1 ELSE current_target
     /\ current_target_model_id' =
          IF stored THEN gather_model_ids(target1) ELSE current_target_model_id
     /\ target_goal_pos' =
          IF stored THEN [p \in 1 .. n |-> stored_goal_pos(env[p], choice[p])]
          ELSE target_goal_pos
     /\ target_goal_rot' =
          IF stored THEN [p \in 1 .. n |-> stored_goal_rot(env[p], choice[p])]
          ELSE target_goal_rot
     /\ root_pose' = IF status = "ok" THEN write_root_pose(env_ids, poses) ELSE root_pose
     /\ last_call' =
          [env_ids |-> env_ids,
           status |-> status,
           gen_before |-> gen,
           choice |-> IF drawn THEN choice ELSE <<>>,
           mask_other_to_side |->
             IF placed
             THEN [p \in 1 .. n |-> IF do_pick[p] THEN others_idx(choice[p])[cols[p] + 1] ELSE -1]
             ELSE <<>>,
           kit_pos_w |-> IF drawn THEN [p \in 1 .. n |-> kit_pos_w(env[p])] ELSE <<>>,
           poses |-> IF placed THEN poses ELSE <<>>]

\* The draws of one call, in the order the code makes them: choice, sampled_idx,
\* rot_t, do_pick, cols.  cols[p] is used only where do_pick[p] holds, and
\* randint(0, num_models - 1) raises before returning when num_models = 1, so
\* the unused values are not enumerated.
Draws(n) ==
  {d \in [choice : RandInt(gen, num_models, n),
          sampled_idx : [1 .. n -> 0 .. NumStartPos - 1],
          rot_t : [1 .. n -> RotDraws],
          do_pick : [1 .. n -> BOOLEAN],
          cols : [1 .. n -> 0 .. (IF num_models > 1 THEN num_models - 2 ELSE 0)]] :
     \A p \in 1 .. n : ~d.do_pick[p] => d.cols[p] = 0}

\* An index tensor the first lookup (kit_ids_per_env[env_ids]) rejects.
OutOfRange(env_ids) ==
  \E p \in 1 .. Len(env_ids) : NormIndex(env_ids[p], NumEnvs) = -1

\* super()._reset_idx(env_ids): the episode counters of env_ids are cleared.
reset_episode_length(env_ids) ==
  [e \in Envs |->
     IF \E p \in 1 .. Len(env_ids) : NormIndex(env_ids[p], NumEnvs) = e
     THEN 0 ELSE episode_length_buf[e]]

\* robot.write_root_pose_to_sim / write_joint_state_to_sim with the defaults:
\* the wrists of env_ids are back where they were at construction.
reset_robot(env_ids) ==
  [e \in Envs |->
     IF \E p \in 1 .. Len(env_ids) : NormIndex(env_ids[p], NumEnvs) = e
     THEN wrist_prim_pose(e) ELSE hand_pose[e]]

\* _reset_idx(env_ids) with every index in range: the objects are sampled.
ResetIdx ==
  \E env_ids \in {s \in EnvIdSeqs : ~OutOfRange(s)} :
    \E d \in Draws(Len(env_ids)) :
      /\ calls < MaxCalls
      /\ calls' = calls + 1
      /\ sample_models_for_envs(env_ids, d.choice, d.sampled_idx, d.rot_t, d.do_pick, d.cols)
      /\ episode_length_buf' = reset_episode_length(env_ids)
      /\ hand_pose' = reset_robot(env_ids)
      /\ last_op' = "sample"
      /\ UNCHANGED <<num_models, steps, step_out, robot_local_grasp, layout, startup>>

\* sample_models_for_envs(env_ids) with an index out of range: the call raises
\* at its first lookup, before it draws anything.
SampleOutOfRange ==
  \E env_ids \in {s \in EnvIdSeqs : OutOfRange(s)} :
    /\ calls < MaxCalls
    /\ calls' = calls + 1
    /\ sample_models_for_envs(env_ids, <<>>, <<>>, <<>>, <<>>, <<>>)
    /\ last_op' = "sample"
    /\ UNCHANGED <<num_models, steps, step_out, episode_length_buf,
                   robot_local_grasp, hand_pose, layout, startup>>

Next == ResetIdx \/ SampleOutOfRange

Spec == Init /\ [][Next]_vars

\* ------------------------------------------------- what is_success will read
\* Row e of a stored tensor as an (N, ...) operation reads it: the tensor's own
\* row when it has num_envs rows, its only row when it has one (broadcasting),
\* and none (<<>>) when the shapes do not match or the attribute is not set.
broadcast_row(t, e) ==
  IF Len(t) = NumEnvs THEN <<t[e + 1]>>
  ELSE IF Len(t) = 1 THEN <<t[1]>>
  ELSE <<>>

\* The episode state recorded for environment e: target slot, target
\* shape-type id, and the goal position and rotation is_success compares
\* e's target with.
episode_state(e) ==
  [target |-> current_target[e],
   model_id |-> broadcast_row(current_target_model_id, e),
   goal_pos |-> broadcast_row(target_goal_pos, e),
   goal_rot |-> broadcast_row(target_goal_rot, e)]

\* Every environment has a recorded episode state of its own.
AllRecorded ==
  /\ Len(target_goal_pos) = NumEnvs
  /\ Len(target_goal_rot) = NumEnvs
  /\ Len(current_target_model_id) = NumEnvs
  /\ \A e \in Envs : current_target[e] \in Slots

\* The environments an index tensor names.
Touched(env_ids) == {NormIndex(env_ids[p], NumEnvs) : p \in 1 .. Len(env_ids)}

\* Every index of the tensor lies in [0, num_envs).
InRange(env_ids) == \A p \in 1 .. Len(env_ids) : env_ids[p] \in Envs

\* --------------------------------------------------------- tolerance evaluator
\* is_success defaults: pos_eps = 2e-2, rot_eps = radians(4), height_eps = 3e-3.
pos_eps == 20

rot_eps == 4

height_eps == 3

\* get_target_model_pose()[e]: the root pose of the model in e's target slot,
\* with the position made environment-local.
get_target_model_pose(e) ==
  [pos |-> VecSub(root_pose[current_target[e]][e].pos, env_origins(e)),
   quat |-> root_pose[current_target[e]][e].quat]

\* is_success can be evaluated: the attributes are set, every target index
\* selects a model, and the stored goal tensors broadcast against (N, ...).
is_success_defined ==
  /\ \A e \in Envs : current_target[e] \in Slots
  /\ Len(current_target_model_id) = NumEnvs
  /\ Len(target_goal_pos) \in {1, NumEnvs}
  /\ Len(target_goal_rot) \in {1, NumEnvs}

\* pos_correct: torch.norm(goal[:2] - pose[:2]) < pos_eps
pos_correct(e) ==
  LET goal == broadcast_row(target_goal_pos, e)[1]
      pose == get_target_model_pose(e).pos
      dx == goal[1] - pose[1]
      dy == goal[2] - pose[2]
  IN dx * dx + dy * dy < pos_eps * pos_eps

\* torch.abs(target_model_z_rot - goal_z_rot)
rot_raw(e) ==
  LET z == euler_xyz_from_quat(get_target_model_pose(e).quat)
      d == z - broadcast_row(target_goal_rot, e)[1]
  IN IF d < 0 THEN -d ELSE d

\* A rotational error that is reduced modulo the period but never folded.
symmetry_rot_diff_unfolded(raw, symmetry_val) == raw % symmetry_val

\* rot_diff: the raw difference modulo the symmetry period, replaced by
\* period - difference where it exceeds half the period.
symmetry_rot_diff(raw, symmetry_val) ==
  LET rot_diff == raw % symmetry_val
  IN IF 2 * rot_diff > symmetry_val THEN symmetry_val - rot_diff ELSE rot_diff

\* rot_correct = rot_diff < rot_eps
rot_correct(e) ==
  symmetry_rot_diff(rot_raw(e), symmetry(current_target_model_id[e + 1])) < rot_eps

\* height_correct = target_model_pose[:, 2] < height_eps
height_correct(e) == get_target_model_pose(e).pos[3] < height_eps

\* A success test that leaves the height check out.
is_success_no_height(e) == pos_correct(e) /\ rot_correct(e)

\* success = pos_correct & rot_correct & height_correct
is_success(e) == pos_correct(e) /\ rot_correct(e) /\ height_correct(e)

\* A reward that gives 0, not -1, where the target is not placed.
compute_rewards_zero(success_mask) ==
  [i \in 1 .. NumEnvs |-> IF success_mask[i] THEN 1 ELSE 0]

\* compute_rewards: torch.where(success_mask, ones, -ones)
compute_rewards(success_mask) ==
  [i \in 1 .. NumEnvs |-> IF success_mask[i] THEN 1 ELSE -1]

\* A time-out test that fires one step late.
get_dones_time_out_late(buf) == [i \in 1 .. NumEnvs |-> buf[i - 1] >= max_episode_length]

\* _get_dones: time_out = self.episode_length_buf >= self.max_episode_length - 1
get_dones_time_out(buf) == [i \in 1 .. NumEnvs |-> buf[i - 1] >= max_episode_length - 1]

\* A TCP query that reads the wrist pose of environment 0 for every row.
compute_tcp_world_row0(e) ==
  LET c == tf_combine(hand_pose[0].quat, hand_pose[0].pos,
                      robot_local_grasp[e].rot, robot_local_grasp[e].pos)
  IN [pos |-> VecSub(c.pos, env_origins(e)), rot |-> c.rot]

\* _compute_tcp_world()[e]: the wrist's world pose combined with the stored
\* local TCP, the position made environment-local.
compute_tcp_world(e) ==
  LET c == tf_combine(hand_pose[e].quat, hand_pose[e].pos,
                      robot_local_grasp[e].rot, robot_local_grasp[e].pos)
  IN [pos |-> VecSub(c.pos, env_origins(e)), rot |-> c.rot]

\* A pose read that subtracts the origins in the simulator's own buffer.
root_state_w_after_read_in_place(rp) ==
  [m \in DOMAIN rp |-> [e \in Envs |->
     IF m = current_target[e]
     THEN [rp[m][e] EXCEPT !.pos = VecSub(rp[m][e].pos, env_origins(e))]
     ELSE rp[m][e]]]

\* models[m].data.root_state_w after get_target_model_pose: the rows are
\* copied into a fresh torch.zeros buffer, and `-= env_origins` acts on that
\* buffer; the simulator's buffer is not written.
root_state_w_after_read(rp) == rp

\* The wrist poses a step may leave the robot of e in: the arm has reached
\* over the kit and turned.
HandMoves(e) ==
  {[pos |-> VecAdd(<<400, 100, 200>>, env_origins(e)), quat |-> 180]}

\* The poses the simulation may leave the target of e in, relative to the stored
\* goal as is_success reads it: seated on it, within and at each tolerance,
\* turned by multiples and fractions of the symmetry period, and seated in the
\* kit's slot (kit world position + the slot's goal offset).  The moves by
\* (0, 5 mm) and period + 2 degrees at heights 1 mm and 10 mm are the end-to-end
\* scenarios (0.005 m off the goal, 0.03 rad past one period, height 0.001 / 0.01).
TargetMoves(e) ==
  LET P == symmetry(current_target_model_id[e + 1])
      goal == broadcast_row(target_goal_pos, e)[1]
      rot == broadcast_row(target_goal_rot, e)[1]
      at(d, r) == [pos |-> VecAdd(env_origins(e), <<goal[1] + d[1], goal[2] + d[2], d[3]>>),
                   quat |-> quat_from_euler_xyz(rot + r)]
  IN {at(<<0, 0, 1>>, 0), at(<<0, 5, 1>>, P + 3), at(<<0, 5, 10>>, P + 3),
      at(<<0, 5, 1>>, P + 2), at(<<0, 5, 10>>, P + 2),
      at(<<20, 0, 1>>, 0), at(<<0, 0, 1>>, 4), at(<<0, 0, 1>>, P - 3),
      at(<<0, 0, 1>>, (49 * P) \div 100), at(<<0, 0, 1>>, P - ((49 * P) \div 100)),
      [pos |-> VecAdd(kit_pos_w(e), model_target_pos(kit_ids_per_env(e), current_target[e])),
       quat |-> quat_from_euler_xyz(rot)]}

\* One step of the loop after the first reset: the simulation moves the target
\* and the wrist of one environment, the episode counters advance, and the
\* dones, the rewards and the observation are computed on the resulting state
\* (_get_dones, then _get_rewards, then _get_observations: three reads of the
\* target poses and one TCP query).
Step ==
  /\ calls >= 1
  /\ steps < MaxSteps
  /\ steps' = steps + 1
  /\ last_op' = "step"
  /\ UNCHANGED <<num_models, gen, current_target, current_target_model_id,
                 target_goal_pos, target_goal_rot, calls, last_call, robot_local_grasp,
                 layout, startup>>
  /\ episode_length_buf' = [e \in Envs |-> episode_length_buf[e] + 1]
  /\ IF is_success_defined
     THEN \E e \in Envs : \E pose \in TargetMoves(e) : \E hand \in HandMoves(e) :
            /\ root_pose' =
                 root_state_w_after_read(root_state_w_after_read(root_state_w_after_read(
                   [root_pose EXCEPT ![current_target[e]][e] = pose])))
            /\ hand_pose' = [hand_pose EXCEPT ![e] = hand]
            /\ step_out' =
                 [status |-> "ok",
                  terminated |-> [i \in 1 .. NumEnvs |-> is_success(i - 1)'],
                  time_out |-> get_dones_time_out(episode_length_buf'),
                  reward |-> compute_rewards([i \in 1 .. NumEnvs |-> is_success(i - 1)']),
                  rot_raw |-> [i \in 1 .. NumEnvs |-> rot_raw(i - 1)'],
                  rot_diff |-> [i \in 1 .. NumEnvs |->
                     symmetry_rot_diff(rot_raw(i - 1)', symmetry(current_target_model_id[i]))],
                  symmetry_val |-> [i \in 1 .. NumEnvs |-> symmetry(current_target_model_id[i])],
                  physics |-> [env |-> e, pose |-> pose, hand |-> hand],
                  success_mask |-> [i \in 1 .. NumEnvs |-> is_success(i - 1)'],
                  target_model_pose |-> [i \in 1 .. NumEnvs |-> get_target_model_pose(i - 1)'],
                  tcp |-> [i \in 1 .. NumEnvs |-> compute_tcp_world(i - 1)']]
     ELSE /\ root_pose' = root_pose
          /\ hand_pose' = hand_pose
          /\ step_out' = [NoStep EXCEPT !.status = "error"]

\* The index tensor the loop resets: every environment at the first reset,
\* afterwards the environments the last step reported done, in ascending order.
ResetEnvIds ==
  IF calls = 0 THEN {[p \in 1 .. NumEnvs |-> p - 1]}
  ELSE IF last_op = "step" /\ step_out.status = "ok"
  THEN {s \in EnvIdSeqs :
          /\ InRange(s)
          /\ \A p \in 1 .. Len(s) - 1 : s[p] < s[p + 1]
          /\ \A e \in Envs :
               (e \in Touched(s)) <=> (step_out.terminated[e + 1] \/ step_out.time_out[e + 1])}
  ELSE {}

\* _reset_idx as the loop calls it.
LoopReset ==
  \E env_ids \in ResetEnvIds :
    \E d \in Draws(Len(env_ids)) :
      /\ calls < MaxCalls
      /\ steps < MaxSteps
      /\ calls' = calls + 1
      /\ sample_models_for_envs(env_ids, d.choice, d.sampled_idx, d.rot_t, d.do_pick, d.cols)
      /\ episode_length_buf' = reset_episode_length(env_ids)
      /\ hand_pose' = reset_robot(env_ids)
      /\ last_op' = "sample"
      /\ UNCHANGED <<num_models, steps, step_out, robot_local_grasp, layout, startup>>

NextStep == LoopReset \/ Step

SpecStep == Init /\ [][NextStep]_vars

\* ------------------------------------------------------------------ startup
\* Before construction: the layout files are on disk, no attribute is set.
InitStartup ==
  /\ layout \in Layouts
  /\ startup = "pending"
  /\ num_models = 0
  /\ gen = <<>>
  /\ current_target = <<>>
  /\ current_target_model_id = <<>>
  /\ target_goal_pos = <<>>
  /\ target_goal_rot = <<>>
  /\ root_pose = <<>>
  /\ episode_length_buf = <<>>
  /\ robot_local_grasp = <<>>
  /\ hand_pose = <<>>
  /\ last_op = "none"
  /\ calls = 0
  /\ steps = 0
  /\ last_call = NoCall
  /\ step_out = NoStep

\* How __init__ and _setup_scene end on a layout: o["pos"] / o["rot"] of an
\* object that lacks the key raises KeyError; the symmetry list and the
\* start_pos_proposal lists are turned into tensors as they are.
setup_scene_status(l) == IF ~l.goal_pose_present THEN "KeyError" ELSE "ok"

\* __init__: the layout is parsed and, unless parsing raised, the attributes
\* are built as in InitAttributes.
Construct ==
  /\ startup = "pending"
  /\ startup' = setup_scene_status(layout)
  /\ layout' = layout
  /\ IF setup_scene_status(layout) = "ok"
     THEN \E nm \in 1 .. MaxModels :
            \E g \in [1 .. NumEnvs -> 0 .. nm - 1] :
              \E ct \in [Envs -> 0 .. nm] :
                /\ num_models' = nm
                /\ gen' = g
                /\ current_target' = ct
                /\ root_pose' = [m \in 0 .. nm - 1 |-> [e \in Envs |->
                                   [pos |-> VecAdd(model_default_pose.pos, env_origins(e)),
                                    quat |-> model_default_pose.quat]]]
                /\ episode_length_buf' = [e \in Envs |-> 0]
                /\ robot_local_grasp' =
                     [e \in Envs |-> compute_local_tcp(env_origins(e), wrist_prim_pose(e),
                                                       lfinger_prim_pose(e), rfinger_prim_pose(e))]
                /\ hand_pose' = [e \in Envs |-> wrist_prim_pose(e)]
                /\ last_op' = "init"
                /\ UNCHANGED <<current_target_model_id, target_goal_pos, target_goal_rot,
                               calls, steps, last_call, step_out>>
     ELSE UNCHANGED <<num_models, gen, current_target, current_target_model_id,
                      target_goal_pos, target_goal_rot, root_pose, episode_length_buf,
                      robot_local_grasp, hand_pose, last_op, calls, steps, last_call,
                      step_out>>

NextStartup == Construct

SpecStartup == InitStartup /\ [][NextStartup]_vars

\* A layout with a missing goal pose, a symmetry period <= 0 or an empty
\* staging list.
Malformed(l) ==
  \/ ~l.goal_pose_present
  \/ l.symmetry_period <= 0
  \/ l.start_pos_proposal_len = 0

\* ------------------------------------------------------------------ claims

\* C1: sample_models_for_envs(S) leaves the recorded episode state (target
\* slot, shape-type id, goal position, goal rotation) of every environment
\* outside S unchanged, so is_success still compares it with its own goal.
C1_SamplerIndependence ==
  [][(/\ AllRecorded /\ last_call.status = "ok" /\ InRange(last_call.env_ids)
      /\ last_op' = "sample" /\ last_call'.status = "ok" /\ InRange(last_call'.env_ids)) =>
       \A j \in Envs \ Touched(last_call'.env_ids) :
         episode_state(j)' = episode_state(j)]_vars

\* C2: for any subset S, in any order, the pose written for each slot of an
\* environment of S is the pose computed for that environment, and no pose is
\* written to an environment outside S.
C2_PosesWrittenPerEnv ==
  [][(last_op' = "sample" /\ last_call'.status = "ok" /\ InRange(last_call'.env_ids)) =>
       /\ \A p \in 1 .. Len(last_call'.env_ids) : \A m \in Slots :
            root_pose'[m][last_call'.env_ids[p]] = last_call'.poses[p][m]
       /\ \A e \in Envs \ Touched(last_call'.env_ids) : \A m \in Slots :
            root_pose'[m][e] = root_pose[m][e]]_vars

\* The start poses the target of environment e can be given.
TargetStartPoses(e) ==
  {target_pose(e, i, r) : i \in 0 .. NumStartPos - 1, r \in RotDraws}

\* Slot m of environment e stands at its goal in the kit.
AtKitGoal(e, m) ==
  root_pose[m][e] =
    [pos |-> VecAdd(kit_pos_w(e), model_target_pos(kit_ids_per_env(e), m)),
     quat |-> quat_from_euler_xyz(model_target_rot(kit_ids_per_env(e), m))]

\* Slot m of environment e stands at the staging location.
AtStaging(e, m) == root_pose[m][e].pos = VecAdd(kit_pos_w(e), side_pos)

\* C3: after sample(S), every environment of S has exactly one target slot,
\* written with a target start pose, at most one distractor at the staging
\* location, every other distractor at its kit goal pose, and the staged slot
\* is not the target.
C3_RolesAfterSample ==
  (last_op = "sample" /\ last_call.status = "ok" /\ InRange(last_call.env_ids)) =>
    \A e \in Touched(last_call.env_ids) :
      /\ current_target[e] \in Slots
      /\ root_pose[current_target[e]][e] \in TargetStartPoses(e)
      /\ \A m \in Slots \ {current_target[e]} : AtKitGoal(e, m) \/ AtStaging(e, m)
      /\ Cardinality({m \in Slots \ {current_target[e]} : AtStaging(e, m)}) <= 1

\* C4: after sample, the stored goal position of each sampled environment is
\* the kit's goal row of the target slot in environment-local coordinates:
\* kit world position + kit-local goal offset - environment origin.
C4_GoalInEnvLocalFrame ==
  (last_op = "sample" /\ last_call.status = "ok" /\ InRange(last_call.env_ids)) =>
    \A e \in Touched(last_call.env_ids) :
      episode_state(e).goal_pos =
        <<VecSub(VecAdd(kit_pos_w(e),
                        model_target_pos(kit_ids_per_env(e), current_target[e])),
                 env_origins(e))>>

\* C5: with one slot per kit (no distractors) sample completes without an
\* error and the single slot is written its start pose.
C5_SingleSlotKit ==
  (last_op = "sample" /\ num_models = 1 /\ last_call.env_ids = [p \in 1 .. NumEnvs |-> p - 1]) =>
    /\ last_call.status = "ok"
    /\ \A e \in Envs : root_pose[0][e] \in TargetStartPoses(e)

\* C6: a call whose index tensor holds an index outside [0, num_envs), -1
\* included, fails with an out-of-range error and changes no environment's
\* episode state or object pose.
C6_InvalidIndexRejected ==
  [][(last_op' = "sample" /\ num_models >= 2 /\ ~InRange(last_call'.env_ids)) =>
       /\ last_call'.status = "IndexError"
       /\ current_target' = current_target
       /\ current_target_model_id' = current_target_model_id
       /\ target_goal_pos' = target_goal_pos
       /\ target_goal_rot' = target_goal_rot
       /\ root_pose' = root_pose]_vars

\* The target slot a call for one environment alone draws from generator state g.
solo_choice(g) == (CHOOSE c \in RandInt(g, num_models, 1) : TRUE)[1]

\* C7: environments reset together from a given generator state (a fixed
\* seed) get the target slots they get when each is reset alone from that
\* same generator state.
C7_BatchedMatchesSolo ==
  (last_op = "sample" /\ calls = 1 /\ last_call.status = "ok"
     /\ last_call.env_ids = [p \in 1 .. NumEnvs |-> p - 1]) =>
    \A e \in Envs : current_target[e] = solo_choice(last_call.gen_before)

\* The slots of the batch row p of the last call that were sent to the side.
StagedSlots(p) == {m \in Slots : last_call.mask_other_to_side[p] = m}

\* C8 as stated: a staged distractor is written one fixed task-wide coordinate,
\* not derived from the kit's data or position (in the world frame or in the
\* environment's own frame).
C8_StagingWorldFixed ==
  (last_op = "sample" /\ last_call.status = "ok" /\ InRange(last_call.env_ids)) =>
    \A p \in 1 .. Len(last_call.env_ids) : \A m \in StagedSlots(p) :
      last_call.poses[p][m].pos \in
        {side_pos, VecAdd(side_pos, env_origins(NormIndex(last_call.env_ids[p], NumEnvs)))}

\* C8 as amended: the position computed for a staged distractor is the kit's
\* world position plus one task-wide constant offset (-table_offset, 0.2, 0.1)
\* that does not depend on the kit variant, the slot or the environment; like a
\* goal placement (kit world position plus the slot's goal offset) it is
\* relative to the kit's position.
C8_StagingKitRelative ==
  (last_op = "sample" /\ last_call.status = "ok") =>
    \A p \in 1 .. Len(last_call.env_ids) : \A m \in Slots \ {last_call.choice[p]} :
      LET e == NormIndex(last_call.env_ids[p], NumEnvs)
          rel == VecSub(last_call.poses[p][m].pos, last_call.kit_pos_w[p])
      IN /\ last_call.kit_pos_w[p] = VecAdd(kit_default_pos, env_origins(e))
         /\ m \in StagedSlots(p) => rel = <<-table_offset, 200, 100>>
         /\ m \notin StagedSlots(p) => rel = model_target_pos(kit_ids_per_env(e), m)

\* C8 witness: a completed call staged a distractor of a kit with two distractors.
C8_Witness ==
  /\ last_op = "sample" /\ last_call.status = "ok" /\ num_models = 3
  /\ \E p \in 1 .. Len(last_call.env_ids) : StagedSlots(p) # {}

\* C9: at every step and for every environment the reward is +1 exactly when
\* terminated is true, and -1 otherwise.
C9_RewardMatchesTerminated ==
  (last_op = "step" /\ step_out.status = "ok") =>
    \A i \in 1 .. NumEnvs :
      /\ step_out.reward[i] = 1 <=> step_out.terminated[i]
      /\ step_out.reward[i] = -1 <=> ~step_out.terminated[i]

\* C9 witness: a step after which one environment succeeded and another did not.
C9_Witness ==
  /\ last_op = "step" /\ step_out.status = "ok"
  /\ \E i, j \in 1 .. NumEnvs : step_out.terminated[i] /\ ~step_out.terminated[j]

\* C10: the rotational error is_success uses is |current - goal| reduced modulo
\* the symmetry period P and folded to the shorter arc: it lies in [0, P/2],
\* raw differences d and P - d give the same error, and a whole multiple of P
\* gives 0.
C10_RotFoldedToShorterArc ==
  (last_op = "step" /\ step_out.status = "ok") =>
    \A i \in 1 .. NumEnvs :
      LET P == step_out.symmetry_val[i]
          d == step_out.rot_raw[i]
          err == step_out.rot_diff[i]
      IN /\ 0 <= err /\ 2 * err <= P
         /\ err \in {d % P, P - (d % P)}
         /\ d % P = 0 => err = 0
         /\ d <= P => err = symmetry_rot_diff(P - d, P)
         /\ \A j \in 1 .. NumEnvs :
              (step_out.symmetry_val[j] = P /\ step_out.rot_raw[j] + d = P) =>
                step_out.rot_diff[j] = err

\* C10 witness: a step in which two environments with the same period P stand
\* at raw differences d < P/2 and P - d, and a raw difference beyond P/2 was folded.
C10_Witness ==
  /\ last_op = "step" /\ step_out.status = "ok"
  /\ \E i, j \in 1 .. NumEnvs :
       /\ i # j
       /\ step_out.symmetry_val[i] = step_out.symmetry_val[j]
       /\ step_out.rot_raw[i] + step_out.rot_raw[j] = step_out.symmetry_val[i]
       /\ 2 * step_out.rot_raw[i] > step_out.symmetry_val[i]
       /\ step_out.rot_diff[i] = step_out.rot_raw[j]
       /\ step_out.rot_diff[i] > 0

\* The three checks of environment e written out on the state a step left:
\* planar distance to the goal is_success reads, folded rotational error, height.
ChecksAfterStep(e) ==
  LET pose == root_pose[current_target[e]][e]
      goal == broadcast_row(target_goal_pos, e)[1]
      dx == goal[1] - (pose.pos[1] - env_origins(e)[1])
      dy == goal[2] - (pose.pos[2] - env_origins(e)[2])
  IN [dx |-> dx, dy |-> dy,
      planar |-> dx * dx + dy * dy < 20 * 20,
      rotational |-> step_out.rot_diff[e + 1] < 4,
      z |-> pose.pos[3] - env_origins(e)[3],
      height |-> pose.pos[3] - env_origins(e)[3] < 3]

\* The scenario of C11 at height z: target 5 mm beside the goal, turned one
\* period of 180 degrees plus 2 degrees (0.03 rad) past the goal rotation.
AtScenario(e, z) ==
  /\ step_out.symmetry_val[e + 1] = 180
  /\ step_out.rot_raw[e + 1] = 182
  /\ ChecksAfterStep(e).dx = 0 /\ ChecksAfterStep(e).dy = -5
  /\ ChecksAfterStep(e).z = z

\* C11: is_success of an environment is true exactly when the planar distance
\* to the goal is below pos_eps, the folded rotational error is below rot_eps
\* and the height is below height_eps; the scenario at height 0.001 is a
\* success and the same scenario at height 0.01 is not.
C11_SuccessIsConjunction ==
  (last_op = "step" /\ step_out.status = "ok") =>
    \A e \in Envs :
      /\ step_out.terminated[e + 1] <=>
           (ChecksAfterStep(e).planar /\ ChecksAfterStep(e).rotational
              /\ ChecksAfterStep(e).height)
      /\ AtScenario(e, 1) => step_out.terminated[e + 1]
      /\ AtScenario(e, 10) => ~step_out.terminated[e + 1]

\* C11 witness: after a step one environment stands in the scenario at height
\* 0.001 and succeeded, and another fails by the height check alone.
C11_Witness ==
  /\ last_op = "step" /\ step_out.status = "ok"
  /\ \E i, j \in Envs :
       /\ i # j
       /\ AtScenario(i, 1) /\ step_out.terminated[i + 1]
       /\ ChecksAfterStep(j).planar /\ ChecksAfterStep(j).rotational
       /\ ~ChecksAfterStep(j).height /\ ~step_out.terminated[j + 1]

\* C12: the local TCP of every environment is the pair computed at
\* construction, (0, -0.02, -0.1) with no rotation relative to the wrist, in
\* every state steps, TCP queries and resets lead to, and the world TCP a
\* step returns for an environment is its own wrist pose combined with that
\* pair, minus its own origin.
C12_LocalTcpFixed ==
  /\ \A e \in Envs : robot_local_grasp[e] = [pos |-> <<0, -20, -100>>, rot |-> 0]
  /\ (last_op = "step" /\ step_out.status = "ok") =>
       \A e \in Envs :
         LET h == hand_pose[e]
             arm == IF h.quat = 90 THEN <<20, 0, -100>> ELSE <<0, 20, -100>>
         IN /\ h.quat \in {90, 180}
            /\ step_out.tcp[e + 1].rot = h.quat
            /\ step_out.tcp[e + 1].pos =
                 <<h.pos[1] + arm[1] - env_origins(e)[1],
                   h.pos[2] + arm[2] - env_origins(e)[2],
                   h.pos[3] + arm[3] - env_origins(e)[3]>>

\* C12 witness: after two resets and two steps the wrists of two environments
\* stand differently in their environments and their TCPs differ.
C12_Witness ==
  /\ last_op = "step" /\ step_out.status = "ok" /\ calls = 2 /\ steps = 2
  /\ \E i, j \in Envs :
       /\ hand_pose[i].quat # hand_pose[j].quat
       /\ step_out.tcp[i + 1] # step_out.tcp[j + 1]

\* C13: construction from a malformed layout (a missing goal pose, a symmetry
\* period <= 0 or an empty staging list) does not complete: it ends with an
\* error, so no reset, sample or success evaluation can run on it.
C13_MalformedLayoutRejected ==
  (startup # "pending" /\ Malformed(layout)) => startup # "ok"

\* C14: after every step, timed_out of an environment is true exactly when its
\* elapsed step count is at least the episode length minus one, whatever
\* terminated is, and terminated is the success test of that state.
C14_DoneFlags ==
  (last_op = "step" /\ step_out.status = "ok") =>
    \A e \in Envs :
      /\ step_out.time_out[e + 1] <=> (episode_length_buf[e] + 1 >= max_episode_length)
      /\ step_out.terminated[e + 1] <=>
           (ChecksAfterStep(e).planar /\ ChecksAfterStep(e).rotational
              /\ ChecksAfterStep(e).height)

\* C14 witness: a step after which one environment is both terminated and
\* timed out and another is timed out without being terminated.
C14_Witness ==
  /\ last_op = "step" /\ step_out.status = "ok"
  /\ \E i, j \in 1 .. NumEnvs :
       /\ step_out.terminated[i] /\ step_out.time_out[i]
       /\ ~step_out.terminated[j] /\ step_out.time_out[j]

\* Every environment's recorded shape-type id is the object id at its target
\* slot in the list of its kit (kit index e mod number of kit variants).
ShapeIdMatchesSlot ==
  /\ Len(current_target_model_id) = NumEnvs
  /\ \A e \in Envs :
       /\ current_target[e] \in Slots
       /\ current_target_model_id[e + 1] = kit_model_ids(e % NumKits, current_target[e])

\* C15: the first reset, over all environments, records for every environment
\* the shape-type id of its target slot, and every later call, over any subset
\* in any order, completed or not, keeps it so; the symmetry period is_success
\* looks up with the recorded id is then that of the target.
C15_ShapeIdFollowsTarget ==
  [][(last_op' = "sample") =>
       /\ (calls = 0 /\ last_call'.env_ids = [p \in 1 .. NumEnvs |-> p - 1])
            => ShapeIdMatchesSlot'
       /\ ShapeIdMatchesSlot => ShapeIdMatchesSlot']_vars

\* C15 witness: after a reset of all environments and a second call for the
\* last environment alone, which drew another slot of another shape type, the
\* ids match the slots.
C15_Witness ==
  /\ last_op = "sample" /\ calls = 2 /\ ShapeIdMatchesSlot
  /\ last_call.env_ids = <<NumEnvs - 1>>
  /\ last_call.choice # <<>>
  /\ last_call.choice[1] = current_target[NumEnvs - 1]
  /\ last_call.choice[1] # 0
  /\ current_target_model_id[1] # current_target_model_id[NumEnvs]

\* C16: the reads of a step (is_success in _get_dones and again in
\* compute_rewards, get_target_model_pose, _compute_tcp_world) leave the state
\* as the simulation left it: the object poses and the wrist poses are the
\* ones physics wrote, the episode state, the stored goals and the local TCP
\* are the ones before the step, and the repeated reads agree (the success
\* mask of the reward is the terminated flag, the target pose of the
\* observation is the pose the state holds).
C16_ReadsMutateNothing ==
  [][(last_op' = "step" /\ step_out'.status = "ok") =>
       LET ph == step_out'.physics
       IN /\ root_pose' = [root_pose EXCEPT ![current_target[ph.env]][ph.env] = ph.pose]
          /\ hand_pose' = [hand_pose EXCEPT ![ph.env] = ph.hand]
          /\ current_target' = current_target
          /\ current_target_model_id' = current_target_model_id
          /\ target_goal_pos' = target_goal_pos
          /\ target_goal_rot' = target_goal_rot
          /\ robot_local_grasp' = robot_local_grasp
          /\ step_out'.success_mask = step_out'.terminated
          /\ \A i \in 1 .. NumEnvs :
               step_out'.reward[i] = (IF step_out'.terminated[i] THEN 1 ELSE -1)
          /\ step_out'.target_model_pose[ph.env + 1] =
               [pos |-> <<ph.pose.pos[1] - env_origins(ph.env)[1],
                         ph.pose.pos[2] - env_origins(ph.env)[2],
                         ph.pose.pos[3] - env_origins(ph.env)[3]>>,
                quat |-> ph.pose.quat]]_vars

\* C16 witness: the second step moved the target of the last environment, whose
\* origin is not the world origin, into its goal, and the reads reported it.
C16_Witness ==
  /\ last_op = "step" /\ step_out.status = "ok" /\ steps = 2
  /\ step_out.physics.env = NumEnvs - 1
  /\ step_out.terminated[NumEnvs] /\ step_out.reward[NumEnvs] = 1
  /\ step_out.tcp[NumEnvs].rot = 180

====
